---- MODULE Spec2Model ----
(***************************************************************************)
(* Model of src/app.py (Skrepa Chat): a Streamlit script that drives a     *)
(* guided conversation from the JSON turns of a chat-completion model.     *)
(*                                                                         *)
(* Text is a sequence of tokens.  A token stands for a piece of the       *)
(* Python string: "{" and "}" are the braces, " " and "\n" are whitespace, *)
(* a member token such as "am_Hi" stands for the text of one JSON member   *)
(* ("assistant_message": "Hi", commas included), and any other token is a  *)
(* piece of prose.  Python values are records [t, v] tagged by their type. *)
(***************************************************************************)
EXTENDS Integers, Sequences, FiniteSets, TLC

\* ------------------------------------------------------------------------
\* Bounds of the model
\* ------------------------------------------------------------------------

\* chat_history never grows past this many entries: a user action that would
\* append an entry is offered only while there is room for it and the answer,
\* and a script run appends only while there is room for the entry.
MaxHistory == 6

\* ------------------------------------------------------------------------
\* Python values
\* ------------------------------------------------------------------------

JStr(s) == [t |-> "str", v |-> s]

JNum(n) == [t |-> "num", v |-> n]

JBool(b) == [t |-> "bool", v |-> b]

JNull == [t |-> "null", v |-> 0]

JArr(items) == [t |-> "arr", v |-> items]

\* a dict: its members <<key, value>> in insertion order
JObj(members) == [t |-> "obj", v |-> members]

\* isinstance(x, dict)
IsDict(x) == x.t = "obj"

\* key in d
HasKey(d, k) == \E i \in 1..Len(d.v) : d.v[i][1] = k

\* d.get(k, default): the last member named k wins, as in json.loads
Get(d, k, default) ==
  IF HasKey(d, k)
    THEN d.v[CHOOSE i \in 1..Len(d.v) :
                /\ d.v[i][1] = k
                /\ \A j \in (i+1)..Len(d.v) : d.v[j][1] # k][2]
    ELSE default

\* bool(x), and the truth value of x in `if x` / `x or y` / `not x`
Truthy(x) ==
  CASE x.t = "str" -> x.v # <<>>
    [] x.t = "num" -> x.v # 0
    [] x.t = "bool" -> x.v
    [] x.t = "null" -> FALSE
    [] x.t = "arr" -> x.v # <<>>
    [] x.t = "obj" -> x.v # <<>>

\* str(x) as text; the repr of a list or of a dict is one opaque token
Str(x) ==
  CASE x.t = "str" -> x.v
    [] x.t = "num" -> <<ToString(x.v)>>
    [] x.t = "bool" -> IF x.v THEN <<"True">> ELSE <<"False">>
    [] x.t = "null" -> <<"None">>
    [] x.t = "arr" -> <<"[list]">>
    [] x.t = "obj" -> <<"{dict}">>

\* `for e in x`: the items, or a TypeError when x is not iterable.
\* A str yields its characters, a dict its keys.
Iter(x) ==
  CASE x.t = "arr" -> [ok |-> TRUE, items |-> x.v]
    [] x.t = "str" -> [ok |-> TRUE, items |-> [i \in 1..Len(x.v) |-> JStr(<<x.v[i]>>)]]
    [] x.t = "obj" -> [ok |-> TRUE, items |-> [i \in 1..Len(x.v) |-> JStr(<<x.v[i][1]>>)]]
    [] OTHER -> [ok |-> FALSE, items |-> <<>>]

\* ------------------------------------------------------------------------
\* Text
\* ------------------------------------------------------------------------

IsSpace(tok) == tok \in {" ", "\n"}

RECURSIVE LStrip(_)
LStrip(s) == IF s # <<>> /\ IsSpace(Head(s)) THEN LStrip(Tail(s)) ELSE s

RECURSIVE RStrip(_)
RStrip(s) ==
  IF s # <<>> /\ IsSpace(s[Len(s)]) THEN RStrip(SubSeq(s, 1, Len(s) - 1)) ELSE s

\* s.strip()
Strip(s) == RStrip(LStrip(s))

\* s.lower(), token by token
LowerTok(tok) ==
  CASE tok = "SELECT" -> "select"
    [] tok = "Short_Text" -> "short_text"
    [] OTHER -> tok

Lower(s) == [i \in 1..Len(s) |-> LowerTok(s[i])]

\* ------------------------------------------------------------------------
\* Requested forms a model can send (the shape asked for by the system
\* prompt, and malformed variants of it)
\* ------------------------------------------------------------------------

Txt(tok) == JStr(<<tok>>)

FieldOf(key, label, type, required) ==
  JObj(<< <<"key", key>>, <<"label", label>>, <<"type", type>>, <<"required", required>> >>)

SelectOf(key, label, type, required, options) ==
  JObj(<< <<"key", key>>, <<"label", label>>, <<"type", type>>,
          <<"required", required>>, <<"options", options>> >>)

FormOf(fields) == JObj(<< <<"title", Txt("Details")>>, <<"fields", fields>> >>)

\* two required fields, both supported
FormContact ==
  FormOf(JArr(<< FieldOf(Txt("name"), Txt("Name"), Txt("short_text"), JBool(TRUE)),
                 SelectOf(Txt("plan"), Txt("Plan"), Txt("SELECT"), JBool(TRUE),
                          JArr(<<Txt("basic"), JNum(2)>>)) >>))

\* a required field of an unsupported type, then a supported required one
FormMixed ==
  FormOf(JArr(<< FieldOf(Txt("sig"), Txt("Signature"), Txt("signature"), JBool(TRUE)),
                 FieldOf(Txt("agree"), Txt("Agree"), Txt("boolean"), JBool(TRUE)) >>))

\* a required field whose key carries surrounding whitespace; no label, no type
FormPadded ==
  FormOf(JArr(<< JObj(<< <<"key", JStr(<<" ", "id", " ">>)>>, <<"required", JNum(1)>> >>) >>))

\* a required field whose key is a number
FormNumKey ==
  FormOf(JArr(<< FieldOf(JNum(5), Txt("Five"), Txt("date"), JBool(TRUE)) >>))

\* a required field with an empty key, then an optional multiselect
FormNoKey ==
  FormOf(JArr(<< FieldOf(Txt(" "), Txt("Blank"), Txt("short_text"), JBool(TRUE)),
                 SelectOf(Txt("tags"), Txt("Tags"), Txt("multiselect"), JBool(FALSE),
                          JArr(<<Txt("x")>>)) >>))

\* optional fields only, one of them a number
FormOptional ==
  FormOf(JArr(<< FieldOf(Txt("age"), Txt("Age"), Txt("number"), JBool(FALSE)),
                 FieldOf(Txt("note"), Txt("Note"), Txt("Short_Text"), JNull) >>))

\* every field is dropped: an empty key and an unsupported type, none required
FormDropped ==
  FormOf(JArr(<< JObj(<< <<"label", Txt("Nameless")>> >>),
                 FieldOf(Txt("photo"), Txt("Photo"), Txt("image"), JBool(FALSE)) >>))

FormEmptyList == FormOf(JArr(<<>>))

FormNoFields == JObj(<< <<"title", Txt("Details")>> >>)

FormFieldsNumber == FormOf(JNum(5))

FormFieldsText == FormOf(JStr(<<"a", "b">>))

FormFieldsDict == FormOf(JObj(<< <<"key", Txt("name")>> >>))

FormBadElement ==
  FormOf(JArr(<< FieldOf(Txt("name"), Txt("Name"), Txt("short_text"), JBool(FALSE)), JNum(1) >>))

FormBadOptions ==
  FormOf(JArr(<< SelectOf(Txt("plan"), Txt("Plan"), Txt("select"), JBool(FALSE), JNull) >>))

FormUnhashableKey ==
  FormOf(JArr(<< FieldOf(JArr(<<Txt("k")>>), Txt("Keys"), Txt("boolean"), JBool(TRUE)) >>))

\* ------------------------------------------------------------------------
\* JSON text
\* ------------------------------------------------------------------------

\* The member each member token spells: <<key, value>>
Lexicon ==
  [ am_Hi     |-> <<"assistant_message", Txt("Hi")>>,
    am_empty  |-> <<"assistant_message", JStr(<<>>)>>,
    am_blank  |-> <<"assistant_message", Txt(" ")>>,
    am_null   |-> <<"assistant_message", JNull>>,
    am_7      |-> <<"assistant_message", JNum(7)>>,
    nc_A_sp_B |-> <<"next_choices", JArr(<<Txt("A"), Txt(" "), Txt("B")>>)>>,
    nc_A      |-> <<"next_choices", JArr(<<Txt("A")>>)>>,
    nc_none   |-> <<"next_choices", JArr(<<>>)>>,
    nc_7_A    |-> <<"next_choices", JArr(<<JNum(7), JStr(<<>>), Txt("A"), JNull>>)>>,
    nc_null   |-> <<"next_choices", JNull>>,
    nc_7      |-> <<"next_choices", JNum(7)>>,
    nc_true   |-> <<"next_choices", JBool(TRUE)>>,
    nc_text   |-> <<"next_choices", JStr(<<"A", " ", "B">>)>>,
    nc_dict   |-> <<"next_choices", JObj(<< <<"A", JNum(1)>> >>)>>,
    rf_null         |-> <<"requested_form", JNull>>,
    rf_text         |-> <<"requested_form", Txt("form")>>,
    rf_list         |-> <<"requested_form", JArr(<<JNum(1)>>)>>,
    rf_empty        |-> <<"requested_form", JObj(<<>>)>>,
    rf_contact      |-> <<"requested_form", FormContact>>,
    rf_mixed        |-> <<"requested_form", FormMixed>>,
    rf_padded       |-> <<"requested_form", FormPadded>>,
    rf_numkey       |-> <<"requested_form", FormNumKey>>,
    rf_nokey        |-> <<"requested_form", FormNoKey>>,
    rf_optional     |-> <<"requested_form", FormOptional>>,
    rf_dropped      |-> <<"requested_form", FormDropped>>,
    rf_emptylist    |-> <<"requested_form", FormEmptyList>>,
    rf_nofields     |-> <<"requested_form", FormNoFields>>,
    rf_fields_num   |-> <<"requested_form", FormFieldsNumber>>,
    rf_fields_text  |-> <<"requested_form", FormFieldsText>>,
    rf_fields_dict  |-> <<"requested_form", FormFieldsDict>>,
    rf_bad_element  |-> <<"requested_form", FormBadElement>>,
    rf_bad_options  |-> <<"requested_form", FormBadOptions>>,
    rf_unhashable   |-> <<"requested_form", FormUnhashableKey>>,
    fin_true  |-> <<"final", JBool(TRUE)>>,
    fin_false |-> <<"final", JBool(FALSE)>>,
    fin_text  |-> <<"final", Txt("false")>>,
    fin_null  |-> <<"final", JNull>>,
    other     |-> <<"note", JNum(1)>> ]

MemberToks == DOMAIN Lexicon

\* tokens that are a JSON value on their own, but not an object
ScalarToks == {"7", "null"}

RECURSIVE MembersOf(_)
MembersOf(body) ==
  IF body = <<>> THEN <<>>
  ELSE IF IsSpace(Head(body)) THEN MembersOf(Tail(body))
  ELSE <<Lexicon[Head(body)]>> \o MembersOf(Tail(body))

\* json.loads on text without surrounding whitespace
LoadsStripped(c) ==
  IF /\ Len(c) >= 2
     /\ c[1] = "{"
     /\ c[Len(c)] = "}"
     /\ \A i \in 2..(Len(c) - 1) : c[i] \in MemberToks \/ IsSpace(c[i])
    THEN [ok |-> TRUE, val |-> JObj(MembersOf(SubSeq(c, 2, Len(c) - 1)))]
  ELSE IF Len(c) = 1 /\ c[1] \in ScalarToks
    THEN [ok |-> TRUE, val |-> IF c[1] = "7" THEN JNum(7) ELSE JNull]
  ELSE [ok |-> FALSE, val |-> JNull]

\* json.loads(s): [ok |-> FALSE] stands for JSONDecodeError
json_loads(s) == LoadsStripped(Strip(s))

\* re.search(r"\{.*\}", content, re.DOTALL): the span from the first "{" to
\* the last "}", or no match
BraceSpan(content) ==
  LET opens == {i \in 1..Len(content) : content[i] = "{"}
      closes == {i \in 1..Len(content) : content[i] = "}"}
      first == CHOOSE i \in opens : \A j \in opens : i <= j
      last == CHOOSE i \in closes : \A j \in closes : j <= i
  IN IF opens # {} /\ closes # {} /\ first < last
       THEN [found |-> TRUE, text |-> SubSeq(content, first, last)]
       ELSE [found |-> FALSE, text |-> <<>>]

\* `if isinstance(parsed, dict): return parsed` after a json.loads;
\* [found |-> FALSE] stands for None
DictOrNone(parsed) ==
  IF parsed.ok /\ IsDict(parsed.val)
    THEN [found |-> TRUE, val |-> parsed.val]
    ELSE [found |-> FALSE, val |-> JNull]

\* lines 61-71: the regular expression and the parse of its match
ExtractMatch(match) ==
  IF ~match.found THEN [found |-> FALSE, val |-> JNull]
  ELSE DictOrNone(json_loads(match.text))

\* lines 54-71, on the stripped content
ExtractStripped(content, whole) ==
  IF whole.found THEN whole ELSE ExtractMatch(BraceSpan(content))

\* _extract_json_object
extract_json_object(content) ==
  ExtractStripped(Strip(content), DictOrNone(json_loads(Strip(content))))

\* [str(x) for x in items]
StrAll(items) == [i \in 1..Len(items) |-> Str(items[i])]

\* [str(x) for x in items if str(x).strip()]
RECURSIVE StrItems(_)
StrItems(items) ==
  IF items = <<>> THEN <<>>
  ELSE IF Strip(Str(Head(items))) # <<>>
    THEN <<Str(Head(items))>> \o StrItems(Tail(items))
  ELSE StrItems(Tail(items))

Turn(message, choices, form, final) ==
  [raised |-> FALSE, assistant_message |-> message, next_choices |-> choices,
   requested_form |-> form, final |-> final]

\* the call did not return: an exception propagated out of it
Raised == [raised |-> TRUE, assistant_message |-> <<>>, next_choices |-> <<>>,
           requested_form |-> JNull, final |-> FALSE]

\* `not parsed`: None, and the empty dict too
NotParsed(parsed) == ~parsed.found \/ ~Truthy(parsed.val)

\* lines 84-89: the list comprehension over next_choices raises a TypeError
\* when the value cannot be iterated
NormalizeDict(parsed, choices) ==
  IF ~choices.ok THEN Raised
  ELSE Turn(Str(Get(parsed, "assistant_message", JStr(<<>>))),
            StrItems(choices.items),
            Get(parsed, "requested_form", JNull),
            Truthy(Get(parsed, "final", JBool(FALSE))))

\* lines 76-89 with the raw text discarded when nothing was extracted
NormalizeOrDrop(parsed, raw_content) ==
  IF NotParsed(parsed) THEN Turn(<<>>, <<>>, JNull, FALSE)
  ELSE NormalizeDict(parsed.val, Iter(Get(parsed.val, "next_choices", JArr(<<>>))))

\* lines 76-89
NormalizeParsed(parsed, raw_content) ==
  IF NotParsed(parsed) THEN Turn(raw_content, <<>>, JNull, FALSE)
  ELSE NormalizeDict(parsed.val, Iter(Get(parsed.val, "next_choices", JArr(<<>>))))

\* _normalize_model_output
normalize_model_output(raw_content) ==
  NormalizeParsed(extract_json_object(raw_content), raw_content)

\* ------------------------------------------------------------------------
\* Model client
\* ------------------------------------------------------------------------

\* "\n".join(part.get("text", "") for part in content if isinstance(part, dict)):
\* [ok |-> FALSE] stands for the TypeError of joining a text that is no str
DictParts(parts) == SelectSeq(parts, IsDict)

JoinTexts(text, rest) ==
  IF text.t # "str" \/ ~rest.ok THEN [ok |-> FALSE, text |-> <<>>]
  ELSE [ok |-> TRUE, text |-> text.v \o <<"\n">> \o rest.text]

RECURSIVE JoinParts(_)
JoinParts(parts) ==
  IF parts = <<>> THEN [ok |-> TRUE, text |-> <<>>]
  ELSE IF Len(parts) = 1
    THEN [ok |-> Get(parts[1], "text", JStr(<<>>)).t = "str",
          text |-> Str(Get(parts[1], "text", JStr(<<>>)))]
  ELSE JoinTexts(Get(Head(parts), "text", JStr(<<>>)), JoinParts(Tail(parts)))

\* What requests.post and the lookup of choices[0].message.content give:
\* an exception (timeout, connection failure, non-2xx status, a body of
\* another shape), or the content
HttpFailure == [failed |-> TRUE, content |-> JNull]

HttpContent(content) == [failed |-> FALSE, content |-> content]

\* lines 118-121, given the joined text of a content that is a list
NormalizeJoined(joined) ==
  IF joined.ok THEN normalize_model_output(joined.text) ELSE Raised

\* _call_chat_completion, from the reply of the endpoint on
call_chat_completion(reply) ==
  IF reply.failed THEN Raised
  ELSE IF reply.content.t = "arr" THEN NormalizeJoined(JoinParts(DictParts(reply.content.v)))
  ELSE normalize_model_output(Str(reply.content))

\* ------------------------------------------------------------------------
\* Form renderer
\* ------------------------------------------------------------------------

SupportedTypes ==
  {<<"short_text">>, <<"number">>, <<"select">>, <<"multiselect">>, <<"boolean">>, <<"date">>}

\* key = str(field.get("key", "")).strip()
FieldKey(field) == Strip(Str(Get(field, "key", JStr(<<>>))))

\* label = str(field.get("label", key))
FieldLabel(field) == Str(Get(field, "label", JStr(FieldKey(field))))

\* field_type = str(field.get("type", "short_text")).lower()
FieldType(field) == Lower(Str(Get(field, "type", Txt("short_text"))))

\* required = bool(field.get("required", False))
FieldRequired(field) == Truthy(Get(field, "required", JBool(FALSE)))

\* options = [str(x) for x in field.get("options", [])]
FieldOptions(field) ==
  LET it == Iter(Get(field, "options", JArr(<<>>)))
  IN [ok |-> it.ok, items |-> [i \in 1..Len(it.items) |-> Str(it.items[i])]]

\* What the loop body of _render_form does with one element of fields:
\* "crash" (an exception leaves _render_form), "skip" (continue) or "show"
FateByType(type, options) ==
  IF type \in {<<"select">>, <<"multiselect">>}
    THEN IF options.ok THEN "show" ELSE "crash"
  ELSE IF type \in SupportedTypes THEN "show"
  ELSE "skip"

FieldFate(field) ==
  IF ~IsDict(field) THEN "crash"
  ELSE IF FieldKey(field) = <<>> THEN "skip"
  ELSE FateByType(FieldType(field), FieldOptions(field))

\* The values the widget of a field of this type can return
ValuesByType(type, options) ==
  CASE type = <<"short_text">> -> {JStr(<<>>), Txt("x")}
    [] type = <<"number">> -> {JNum(0), JNum(3)}
    [] type = <<"select">> -> {JNull} \cup {JStr(options[i]) : i \in 1..Len(options)}
    [] type = <<"multiselect">> ->
         {JArr(<<>>)} \cup {JArr(<<JStr(options[i])>>) : i \in 1..Len(options)}
    [] type = <<"boolean">> -> {JBool(FALSE), JBool(TRUE)}
    [] type = <<"date">> -> {Txt("2024-05-01")}

NoEntry == JNull

\* The values the widget of a field can return; a field that is not shown
\* has no widget
WidgetValues(field) ==
  IF FieldFate(field) = "show"
    THEN ValuesByType(FieldType(field), FieldOptions(field).items)
    ELSE {NoEntry}

\* what a widget returns in a run that no submit click started: its initial
\* value (clear_on_submit, text "", index=None, no selection, off)
DefaultByType(type) ==
  CASE type = <<"short_text">> -> JStr(<<>>)
    [] type = <<"number">> -> JNum(0)
    [] type = <<"select">> -> JNull
    [] type = <<"multiselect">> -> JArr(<<>>)
    [] type = <<"boolean">> -> JBool(FALSE)
    [] type = <<"date">> -> Txt("2024-05-01")

WidgetDefault(field) ==
  IF FieldFate(field) = "show" THEN DefaultByType(FieldType(field)) ELSE NoEntry

\* Every way the user can fill the widgets of the fields in `items`
EntriesFor(items) ==
  {e \in [1..Len(items) -> UNION {WidgetValues(items[i]) : i \in 1..Len(items)}] :
     \A i \in 1..Len(items) : e[i] \in WidgetValues(items[i])}

\* values[key] = value
Put(values, key, value) ==
  IF \E i \in 1..Len(values) : values[i][1] = key
    THEN [i \in 1..Len(values) |-> IF values[i][1] = key THEN <<key, value>> ELSE values[i]]
    ELSE Append(values, <<key, value>>)

\* values.get(k) for a hashable k
Lookup(values, k) ==
  IF k.t = "str" /\ \E i \in 1..Len(values) : values[i][1] = k.v
    THEN values[CHOOSE i \in 1..Len(values) : values[i][1] = k.v][2]
    ELSE JNull

\* x in (None, "", [])
EmptyEquivalent(x) == x \in {JNull, JStr(<<>>), JArr(<<>>)}

\* lines 156-193 for one element of fields, once its fate is known
RenderField(fate, field, value, drawn) ==
  IF drawn.crash \/ fate = "crash" THEN [crash |-> TRUE, values |-> <<>>]
  ELSE IF fate = "skip" THEN drawn
  ELSE [crash |-> FALSE, values |-> Put(drawn.values, FieldKey(field), value)]

\* the first loop over fields (lines 156-196): the dict of values, or a crash
RECURSIVE RenderFields(_, _, _)
RenderFields(items, entered, n) ==
  IF n = 0 THEN [crash |-> FALSE, values |-> <<>>]
  ELSE RenderField(FieldFate(items[n]), items[n], entered[n],
                   RenderFields(items, entered, n - 1))

\* the key the submit check looks a field up by: field.get("key")
CheckedKey(field) == Get(field, "key", JNull)

\* values.get(field.get("key")) raises for a key that is a list or a dict
Unhashable(k) == k.t \in {"arr", "obj"}

\* field.get("required") and values.get(field.get("key")) in (None, "", [])
MissingRequired(field, values) ==
  /\ Truthy(Get(field, "required", JNull))
  /\ EmptyEquivalent(Lookup(values, CheckedKey(field)))

\* the second loop over fields (lines 203-206): the labels of missing_required
RECURSIVE MissingLabels(_, _)
MissingLabels(items, values) ==
  IF items = <<>> THEN <<>>
  ELSE IF MissingRequired(Head(items), values)
    THEN <<Str(Get(Head(items), "label", CheckedKey(Head(items))))>>
           \o MissingLabels(Tail(items), values)
  ELSE MissingLabels(Tail(items), values)

FormResult(outcome, values, missing) ==
  [outcome |-> outcome, values |-> values, missing |-> missing]

\* the elements of requested_form's fields that the loops run over
FormItems(requested_form) ==
  IF IsDict(requested_form)
    THEN Iter(Get(requested_form, "fields", JArr(<<>>))).items
    ELSE <<>>

\* fields = requested_form.get("fields", []) if isinstance(requested_form, dict) else []
FormFields(requested_form) ==
  IF IsDict(requested_form) THEN Get(requested_form, "fields", JArr(<<>>)) ELSE JArr(<<>>)

\* lines 203-211, after a click on the submit button
CheckSubmitted(items, values, missing) ==
  IF \E i \in 1..Len(items) :
       /\ Truthy(Get(items[i], "required", JNull))
       /\ Unhashable(CheckedKey(items[i]))
    THEN FormResult("crash", <<>>, <<>>)
  ELSE IF missing # <<>> THEN FormResult("rejected", values, missing)
  ELSE FormResult("submitted", values, <<>>)

\* lines 152-211, given what the first loop gave
AfterDrawing(items, drawn, submitted) ==
  IF drawn.crash THEN FormResult("crash", <<>>, <<>>)
  ELSE IF ~submitted THEN FormResult("open", drawn.values, <<>>)
  ELSE CheckSubmitted(items, drawn.values, MissingLabels(items, drawn.values))

\* lines 148-211, given fields
RenderForm(fields, it, submitted, entered) ==
  IF ~Truthy(fields) THEN FormResult("none", <<>>, <<>>)
  ELSE IF ~it.ok THEN FormResult("crash", <<>>, <<>>)
  ELSE AfterDrawing(it.items, RenderFields(it.items, entered, Len(it.items)), submitted)

\* _render_form.  outcome "none": no form is drawn, None returned (line 150);
\* "crash": an exception leaves the function; "open": drawn, not submitted,
\* None returned (line 201); "rejected": None returned (line 209);
\* "submitted": values returned (line 211)
render_form(requested_form, submitted, entered) ==
  RenderForm(FormFields(requested_form), Iter(FormFields(requested_form)),
             submitted, entered)

\* the entries the user can make in the form drawn for requested_form
FormEntries(requested_form) == EntriesFor(FormItems(requested_form))

\* the entry of a form nobody touched
DefaultEntry(requested_form) ==
  [i \in 1..Len(FormItems(requested_form)) |-> WidgetDefault(FormItems(requested_form)[i])]

\* ------------------------------------------------------------------------
\* Inputs: what the endpoint can reply and how the sidebar can be set
\* ------------------------------------------------------------------------

Opt(toks) == {<<>>} \cup {<<tok>> : tok \in toks}

\* the text of a JSON object with at most one member of each kind
Objects(A, N, R, F) ==
  {<<"{">> \o a \o n \o r \o f \o <<"}">> : a \in A, n \in N, r \in R, f \in F}

\* replies in the shape the system prompt asks for
TurnTexts ==
  Objects({<<"am_Hi">>}, Opt({"nc_A_sp_B"}),
          Opt({"rf_contact", "rf_mixed", "rf_padded", "rf_dropped", "rf_bad_element"}),
          Opt({"fin_true"}))

\* replies in other shapes: prose, prose around an object, prose with braces
\* of its own, an empty object, an empty text, a blank message, members of
\* the wrong type
OddTexts ==
  { <<"Sorry,", " ", "no", " ">>, <<>>, <<"{", "}">>,
    <<"Sure!", "\n", "{", "am_Hi", "nc_A", "fin_text", "}", "\n">>,
    <<"Set", " ", "{", "x", "}", ":", "\n", "{", "am_Hi", "}">>,
    <<"}", " ", "or", " ", "{">>,
    <<"{", "am_blank", "}">>,
    <<"{", "am_Hi", "nc_null", "}">>,
    <<"{", "am_Hi", "nc_7_A", "}">>,
    <<"{", "am_7", "nc_text", "rf_text", "fin_false", "}">> }

Responses == TurnTexts \cup OddTexts

Replies ==
  {HttpFailure} \cup {HttpContent(JStr(text)) : text \in Responses}
    \cup {HttpContent(JNull),
          HttpContent(JArr(<< JObj(<< <<"text", JStr(<<"{", "am_Hi">>)>> >>), JNum(1),
                              JObj(<< <<"text", JStr(<<"nc_A", "}">>)>> >>) >>)),
          HttpContent(JArr(<< JObj(<< <<"text", JNull>> >>) >>))}

Configs ==
  { [terms |-> FALSE, lines |-> << <<"Billing", " ", "help">>, <<" ">>, <<" ", "Status">> >>,
     greeting |-> <<"Hi,", " ", "pick", " ", "one.">>],
    [terms |-> TRUE, lines |-> << <<"Billing", " ", "help">>, <<" ">>, <<" ", "Status">> >>,
     greeting |-> <<"Hi,", " ", "pick", " ", "one.">>],
    [terms |-> FALSE, lines |-> << <<" ">> >>, greeting |-> <<"Hi,", " ", "pick", " ", "one.">>],
    [terms |-> FALSE, lines |-> << <<"Billing", " ", "help">> >>, greeting |-> <<>>] }

\* ------------------------------------------------------------------------
\* State
\* ------------------------------------------------------------------------

VARIABLES
  session_state,   \* st.session_state: a dict from the keys it holds to values
  require_terms,   \* sidebar: "Accept terms before start"
  starters_raw,    \* sidebar: "Starter questions", as its lines
  greeting_text,   \* sidebar: "Greeting message"
  starter_pills,   \* widget state of the starter pills: <<>> or <<selected>>
  choice_pills,    \* widget state of the choice pills: its options and selection
  terms_box,       \* widget state of the terms checkbox
  trigger,         \* the button whose click started this script run
  form_entry,      \* the widget values sent with a form's submit click
  pc,              \* position of the script run; "idle" between runs
  ret,             \* where the script goes on when the pending call fails
  response,        \* what the endpoint answers to the request in flight
  rendered,        \* the affordances drawn so far by this script run
  crashed,         \* the script run ended in an uncaught exception
  epoch,           \* "new": no user entry since the page was opened; "used": a
                   \* user entry was appended; "reset": a used conversation was
                   \* reset and no user entry was appended since
  failure,         \* the affordance whose call failed last, and runs since
  run_appends,     \* user entries appended by this script run
  run_calls        \* model calls made by this script run

session == <<session_state, response>>

config == <<require_terms, starters_raw, greeting_text>>

widgets == <<starter_pills, choice_pills, terms_box>>

observed == <<epoch, failure, run_appends, run_calls>>

vars == <<session_state, require_terms, starters_raw, greeting_text, starter_pills,
          choice_pills, terms_box, trigger, form_entry, pc, ret, response, rendered,
          crashed, epoch, failure, run_appends, run_calls>>

chat_history == session_state.chat_history

pending_choices == session_state.pending_choices

pending_form == session_state.pending_form

conversation_done == session_state.conversation_done

accepted_terms == session_state.accepted_terms

\* the script is past _init_state (line 283): every key is set
Initialised == pc # "sidebar"

Message(role, content) == [role |-> role, content |-> content]

\* ------------------------------------------------------------------------
\* Session state helpers
\* ------------------------------------------------------------------------

ResetKeys ==
  {"chat_history", "pending_choices", "pending_form", "conversation_done", "accepted_terms"}

\* st.session_state.pop(key, None) for the keys of `keys`
Pop(state, keys) == [k \in (DOMAIN state) \ keys |-> state[k]]

\* a reset that leaves the pending choices in place
reset_keeping_choices(state) == Pop(state, ResetKeys \ {"pending_choices"})

\* a reset that leaves the acceptance of the terms in place
reset_keeping_terms(state) == Pop(state, ResetKeys \ {"accepted_terms"})

\* _reset_conversation
reset_conversation(state) == Pop(state, ResetKeys)

\* if key not in st.session_state: st.session_state[key] = value
SetDefault(state, key, value) ==
  IF key \in DOMAIN state THEN state ELSE (key :> value) @@ state

\* _init_state
init_state(state) ==
  SetDefault(
    SetDefault(
      SetDefault(
        SetDefault(
          SetDefault(state, "chat_history", <<>>),
          "pending_choices", <<>>),
        "pending_form", JNull),
      "conversation_done", FALSE),
    "accepted_terms", FALSE)

\* _ensure_greeting
ensure_greeting(state, greeting) ==
  IF state.chat_history = <<>>
    THEN [state EXCEPT !.chat_history = <<Message("assistant", greeting)>>]
    ELSE state

\* starters = [line.strip() for line in starters_raw.splitlines() if line.strip()]
RECURSIVE StarterList(_)
StarterList(lines) ==
  IF lines = <<>> THEN <<>>
  ELSE IF Strip(Head(lines)) # <<>> THEN <<Strip(Head(lines))>> \o StarterList(Tail(lines))
  ELSE StarterList(Tail(lines))

starters == StarterList(starters_raw)

Fallback == <<"I can help you continue with structured choices.">>

\* line 224: result["assistant_message"].strip() or "I can help you ..."
AssistantText(message) == IF Strip(message) # <<>> THEN Strip(message) ELSE Fallback

\* lines 224-228 without regard to an exception of the call
AssignAnyway(state, result) ==
  [raised |-> result.raised,
   state |-> [state EXCEPT
                !.chat_history =
                  Append(@, Message("assistant", AssistantText(result.assistant_message))),
                !.pending_choices = result.next_choices,
                !.pending_form = result.requested_form,
                !.conversation_done = result.final]]

\* lines 224-228, given what _call_chat_completion did: the exception of a
\* failed call propagates before anything is assigned
ApplyTurn(state, result) ==
  IF result.raised THEN [raised |-> TRUE, state |-> state]
  ELSE [raised |-> FALSE,
        state |-> [state EXCEPT
                     !.chat_history =
                       Append(@, Message("assistant", AssistantText(result.assistant_message))),
                     !.pending_choices = result.next_choices,
                     !.pending_form = result.requested_form,
                     !.conversation_done = result.final]]

\* _trigger_assistant_turn on the session state, given the endpoint's reply
trigger_assistant_turn(state, reply) == ApplyTurn(state, call_chat_completion(reply))

\* json.dumps(form_values): one token per key and one per value
RECURSIVE DumpMembers(_)
DumpMembers(values) ==
  IF values = <<>> THEN <<>>
  ELSE Head(values)[1] \o <<":">> \o Str(Head(values)[2]) \o DumpMembers(Tail(values))

json_dumps(values) == <<"{">> \o DumpMembers(values) \o <<"}">>

FormSubmissionPrefix == "FORM_SUBMISSION: "

\* ------------------------------------------------------------------------
\* Widget state
\* ------------------------------------------------------------------------

NoPills == [options |-> <<>>, selected |-> <<>>]

NoBox == [drawn |-> FALSE, default |-> FALSE, value |-> FALSE]

\* st.checkbox(label, value=default): a checkbox drawn with another default
\* is another widget, which starts at its default
CheckboxValue(box, default) ==
  IF box.drawn /\ box.default = default THEN box.value ELSE default

\* st.pills(label, options): pills drawn with other options are another
\* widget, which starts with nothing selected
PillsValue(pills, options) ==
  IF pills.options = options THEN pills.selected ELSE <<>>

\* End of a script run (its last line, st.stop() or st.rerun()): a widget
\* the run did not draw loses its state
KeepIfDrawn(drawn) ==
  /\ starter_pills' = IF "starters" \in drawn THEN starter_pills ELSE <<>>
  /\ choice_pills' = IF "choices" \in drawn THEN choice_pills ELSE NoPills
  /\ terms_box' = IF "terms" \in drawn THEN terms_box ELSE NoBox

\* st.rerun(): the run ends and the script starts over; no button is clicked
\* in the new run and the form's widgets are back at their initial values
Rerun ==
  /\ KeepIfDrawn(rendered)
  /\ pc' = "sidebar"
  /\ trigger' = "none"
  /\ form_entry' = <<>>
  /\ rendered' = {}
  /\ run_appends' = 0
  /\ run_calls' = 0

\* ------------------------------------------------------------------------
\* Initial state: the page has just been opened and the script starts
\* ------------------------------------------------------------------------

EmptyDict == [k \in {} |-> 0]

NoFailure == [from |-> "none", age |-> 0, cause |-> "none"]

\* no request is in flight
NoReply == [failed |-> TRUE, content |-> Txt("no request")]

Init ==
  /\ session_state = EmptyDict
  /\ \E c \in Configs :
       /\ require_terms = c.terms
       /\ starters_raw = c.lines
       /\ greeting_text = c.greeting
  /\ starter_pills = <<>>
  /\ choice_pills = NoPills
  /\ terms_box = NoBox
  /\ trigger = "none"
  /\ form_entry = <<>>
  /\ pc = "sidebar"
  /\ ret = "none"
  /\ response = NoReply
  /\ rendered = {}
  /\ crashed = FALSE
  /\ epoch = "new"
  /\ failure = NoFailure
  /\ run_appends = 0
  /\ run_calls = 0

\* ------------------------------------------------------------------------
\* The user: each interaction with a drawn widget starts a script run
\* ------------------------------------------------------------------------

HasRoom == Len(chat_history) + 2 <= MaxHistory

\* there is room for one more entry
NotFull == Len(chat_history) < MaxHistory

StartRun(button, entry) ==
  /\ pc = "idle"
  /\ pc' = "sidebar"
  /\ trigger' = button
  /\ form_entry' = entry
  /\ rendered' = {}
  /\ crashed' = FALSE
  /\ run_appends' = 0
  /\ run_calls' = 0
  /\ failure' = IF failure.from = "none" THEN failure ELSE [failure EXCEPT !.age = 1]
  /\ UNCHANGED <<session, ret, epoch>>

\* the user picks a starter pill
SelectStarter ==
  /\ "starters" \in rendered
  /\ HasRoom
  /\ \E i \in 1..Len(starters) : starter_pills' = <<starters[i]>>
  /\ StartRun("none", <<>>)
  /\ UNCHANGED <<config, choice_pills, terms_box>>

\* the user picks a choice pill
SelectChoice ==
  /\ "choices" \in rendered
  /\ HasRoom
  /\ \E i \in 1..Len(choice_pills.options) :
       choice_pills' = [choice_pills EXCEPT !.selected = <<choice_pills.options[i]>>]
  /\ StartRun("none", <<>>)
  /\ UNCHANGED <<config, starter_pills, terms_box>>

\* the user clicks the selected pill again, which clears the selection
ClearPills ==
  /\ \/ "starters" \in rendered /\ starter_pills # <<>>
     \/ "choices" \in rendered /\ choice_pills.selected # <<>>
  /\ starter_pills' = <<>>
  /\ choice_pills' = [choice_pills EXCEPT !.selected = <<>>]
  /\ StartRun("none", <<>>)
  /\ UNCHANGED <<config, terms_box>>

\* the user fills the form and clicks its submit button
SubmitForm ==
  /\ "form" \in rendered
  /\ HasRoom
  /\ \E entry \in FormEntries(pending_form) : StartRun("submit", entry)
  /\ UNCHANGED <<config, widgets>>

\* the user ticks or unticks the terms checkbox
ToggleTerms ==
  /\ "terms" \in rendered
  /\ terms_box' = [terms_box EXCEPT !.value = ~@]
  /\ StartRun("none", <<>>)
  /\ UNCHANGED <<config, starter_pills, choice_pills>>

\* the user clicks "Reset conversation" in the sidebar
ClickReset ==
  /\ StartRun("reset", <<>>)
  /\ UNCHANGED <<config, widgets>>

\* the user clicks "Start new conversation" under the completion banner
ClickNewConversation ==
  /\ "done" \in rendered
  /\ StartRun("new_conversation", <<>>)
  /\ UNCHANGED <<config, widgets>>

\* the user touches a widget that changes nothing modelled here (the title,
\* the connection settings, the feedback thumbs); the sidebar settings that
\* are modelled keep the values the session started with
TouchOther ==
  /\ StartRun("none", <<>>)
  /\ UNCHANGED <<config, widgets>>

\* ------------------------------------------------------------------------
\* The script, block by block
\* ------------------------------------------------------------------------

\* lines 273-275: the reset button was clicked
ResetButton ==
  /\ pc = "sidebar"
  /\ trigger = "reset"
  /\ session_state' = reset_conversation(session_state)
  /\ Rerun
  /\ epoch' = IF epoch = "used" THEN "reset" ELSE epoch
  /\ failure' = NoFailure
  /\ UNCHANGED <<config, ret, response, crashed>>

\* lines 289-293: accepted_terms as this run sets it
Accepted ==
  IF require_terms
    THEN CheckboxValue(terms_box, init_state(session_state).accepted_terms)
    ELSE TRUE

\* lines 283-293: the session state after _init_state and the terms checkbox
AfterTerms == [init_state(session_state) EXCEPT !.accepted_terms = Accepted]

\* line 290: the checkbox as this run draws it
DrawnBox ==
  IF require_terms
    THEN [drawn |-> TRUE, default |-> init_state(session_state).accepted_terms,
          value |-> Accepted]
    ELSE terms_box

\* the terms gate placed after _ensure_greeting: the greeting is seeded
\* before the run stops
GateAfterGreeting ==
  /\ pc = "sidebar"
  /\ trigger # "reset"
  /\ ~Accepted
  /\ session_state' = ensure_greeting(AfterTerms, greeting_text)
  /\ terms_box' = DrawnBox
  /\ starter_pills' = <<>>
  /\ choice_pills' = NoPills
  /\ rendered' = {"terms"}
  /\ pc' = "idle"
  /\ trigger' = "none"
  /\ form_entry' = <<>>
  /\ UNCHANGED <<config, ret, response, crashed, observed>>

\* lines 283-297: terms are required and not accepted, and the run stops
TermsGate ==
  /\ pc = "sidebar"
  /\ trigger # "reset"
  /\ ~Accepted
  /\ session_state' = AfterTerms
  /\ terms_box' = DrawnBox
  /\ starter_pills' = <<>>
  /\ choice_pills' = NoPills
  /\ rendered' = {"terms"}
  /\ pc' = "idle"
  /\ trigger' = "none"
  /\ form_entry' = <<>>
  /\ UNCHANGED <<config, ret, response, crashed, observed>>

\* lines 283-319: terms are accepted, the greeting is seeded, history is drawn
Prologue ==
  /\ pc = "sidebar"
  /\ trigger # "reset"
  /\ Accepted
  /\ session_state' = ensure_greeting(AfterTerms, greeting_text)
  /\ terms_box' = DrawnBox
  /\ rendered' = IF require_terms THEN {"terms"} ELSE {}
  /\ pc' = "starters"
  /\ UNCHANGED <<config, starter_pills, choice_pills, trigger, form_entry, ret, response,
                 crashed, observed>>

\* lines 324, 334, 345: a handler appends the user's entry
AppendUser(state, content) ==
  [state EXCEPT !.chat_history = Append(@, Message("user", content))]

\* a handler appends the user's entry and calls _trigger_assistant_turn,
\* which sends the request; the endpoint answers it one way or another
Ask(content, back) ==
  /\ NotFull
  /\ session_state' = AppendUser(session_state, content)
  /\ response' \in Replies
  /\ pc' = "call"
  /\ ret' = back
  /\ run_appends' = run_appends + 1
  /\ run_calls' = run_calls + 1
  /\ epoch' = "used"
  /\ UNCHANGED <<config, trigger, form_entry, crashed, failure>>

\* line 321 with the history length off by one
StartersOnEmptyHistory == Len(chat_history) = 0 /\ starters # <<>>

\* line 321
StartersShown == Len(chat_history) = 1 /\ starters # <<>>

\* lines 321-324: the starter pills are drawn with a pill selected
StarterChosen ==
  /\ pc = "starters"
  /\ StartersShown
  /\ starter_pills # <<>>
  /\ rendered' = rendered \cup {"starters"}
  /\ Ask(starter_pills[1], "choices")
  /\ UNCHANGED widgets

\* lines 321-323: no starter pills, or none selected
StartersPassed ==
  /\ pc = "starters"
  /\ ~(StartersShown /\ starter_pills # <<>>)
  /\ rendered' = IF StartersShown THEN rendered \cup {"starters"} ELSE rendered
  /\ pc' = "choices"
  /\ UNCHANGED <<session, config, widgets, trigger, form_entry, ret, crashed, observed>>

\* line 331 without its second condition
ChoicesPending == pending_choices # <<>>

\* line 331
ChoicesShown == pending_choices # <<>> /\ ~conversation_done

\* line 332: what the choice pills return in this run
SelectedChoice == PillsValue(choice_pills, pending_choices)

\* lines 331-334: the choice pills are drawn with a pill selected
ChoiceChosen ==
  /\ pc = "choices"
  /\ ChoicesShown
  /\ SelectedChoice # <<>>
  /\ choice_pills' = [options |-> pending_choices, selected |-> SelectedChoice]
  /\ rendered' = rendered \cup {"choices"}
  /\ Ask(SelectedChoice[1], "form")
  /\ UNCHANGED <<starter_pills, terms_box>>

\* lines 331-333: no choice pills, or none selected
ChoicesPassed ==
  /\ pc = "choices"
  /\ ~(ChoicesShown /\ SelectedChoice # <<>>)
  /\ choice_pills' = IF ChoicesShown
                       THEN [options |-> pending_choices, selected |-> <<>>]
                       ELSE choice_pills
  /\ rendered' = IF ChoicesShown THEN rendered \cup {"choices"} ELSE rendered
  /\ pc' = "form"
  /\ UNCHANGED <<session, config, starter_pills, terms_box, trigger, form_entry, ret,
                 crashed, observed>>

\* line 341
FormAttempted == Truthy(pending_form) /\ ~conversation_done

\* what the form's widgets hold in this run
FormEntry == IF trigger = "submit" THEN form_entry ELSE DefaultEntry(pending_form)

\* line 342: _render_form on the pending form
FormOutcome == render_form(pending_form, trigger = "submit", FormEntry)

\* lines 343-345
SubmitValues(result) ==
  /\ result.outcome = "submitted"
  /\ Ask(<<FormSubmissionPrefix>> \o json_dumps(result.values), "done")

\* lines 341-345: the form is drawn, was submitted and passes the check
FormSubmitted ==
  /\ pc = "form"
  /\ FormAttempted
  /\ SubmitValues(FormOutcome)
  /\ rendered' = rendered \cup {"form"}
  /\ UNCHANGED widgets

\* line 342: an exception leaves _render_form and ends the run
FormCrashes ==
  /\ pc = "form"
  /\ FormAttempted
  /\ FormOutcome.outcome = "crash"
  /\ crashed' = TRUE
  /\ pc' = "idle"
  /\ trigger' = "none"
  /\ form_entry' = <<>>
  /\ UNCHANGED <<session, config, widgets, ret, rendered, observed>>

\* line 343: _render_form returned None, having drawn a form or not
ReturnedNone(outcome) ==
  /\ outcome \in {"none", "open", "rejected"}
  /\ rendered' = IF outcome = "none" THEN rendered ELSE rendered \cup {"form"}

\* lines 341-343: no form, or a form that returns None
FormPassed ==
  /\ pc = "form"
  /\ IF FormAttempted THEN ReturnedNone(FormOutcome.outcome) ELSE rendered' = rendered
  /\ pc' = "done"
  /\ UNCHANGED <<session, config, widgets, trigger, form_entry, ret, crashed, observed>>

\* the affordance whose handler resumes at `back` after a failed call
Caller(back) ==
  CASE back = "choices" -> "starters"
    [] back = "form" -> "choices"
    [] back = "done" -> "form"

\* the call raised, and the handler withdraws the pending choices
FailedClearing(turn) ==
  turn.raised /\ session_state' = [turn.state EXCEPT !.pending_choices = <<>>]

\* the call raised: nothing is assigned
Failed(turn) == turn.raised /\ session_state' = turn.state

\* the call returned: lines 224-228 are done
Applied(turn) == ~turn.raised /\ session_state' = turn.state

\* where the exception of a failed call came from: the request, the join
\* of the content parts, or _normalize_model_output
Cause(answer) ==
  IF answer.failed THEN "request"
  ELSE IF answer.content.t = "arr" THEN "join"
  ELSE "normalize"

\* lines 325-329, 335-339, 346-350: the call raises; the handler reports it
\* and the script goes on below the handler
TurnFails ==
  /\ pc = "call"
  /\ Failed(trigger_assistant_turn(session_state, response))
  /\ response' = NoReply
  /\ pc' = ret
  /\ failure' = [from |-> Caller(ret), age |-> 0, cause |-> Cause(response)]
  /\ UNCHANGED <<config, widgets, trigger, form_entry, ret, rendered, crashed, epoch,
                 run_appends, run_calls>>

\* lines 326-327, 336-337, 347-348: the call returns and the script reruns
TurnApplied ==
  /\ pc = "call"
  /\ NotFull
  /\ Applied(trigger_assistant_turn(session_state, response))
  /\ response' = NoReply
  /\ Rerun
  /\ failure' = NoFailure
  /\ UNCHANGED <<config, ret, crashed, epoch>>

\* lines 352-360: the banner is drawn and its button was clicked
NewConversationButton ==
  /\ pc = "done"
  /\ conversation_done
  /\ trigger = "new_conversation"
  /\ session_state' = reset_conversation(session_state)
  /\ KeepIfDrawn(rendered \cup {"done"})
  /\ pc' = "sidebar"
  /\ trigger' = "none"
  /\ form_entry' = <<>>
  /\ rendered' = {}
  /\ run_appends' = 0
  /\ run_calls' = 0
  /\ epoch' = IF epoch = "used" THEN "reset" ELSE epoch
  /\ failure' = NoFailure
  /\ UNCHANGED <<config, ret, response, crashed>>

\* lines 352-360: the script reaches its end
ScriptEnds ==
  /\ pc = "done"
  /\ ~(conversation_done /\ trigger = "new_conversation")
  /\ rendered' = IF conversation_done THEN rendered \cup {"done"} ELSE rendered
  /\ KeepIfDrawn(rendered)
  /\ pc' = "idle"
  /\ trigger' = "none"
  /\ form_entry' = <<>>
  /\ UNCHANGED <<session, config, ret, crashed, observed>>

Next ==
  \/ SelectStarter
  \/ SelectChoice
  \/ ClearPills
  \/ SubmitForm
  \/ ToggleTerms
  \/ ClickReset
  \/ ClickNewConversation
  \/ TouchOther
  \/ ResetButton
  \/ TermsGate
  \/ Prologue
  \/ StarterChosen
  \/ StartersPassed
  \/ ChoiceChosen
  \/ ChoicesPassed
  \/ FormSubmitted
  \/ FormCrashes
  \/ FormPassed
  \/ TurnFails
  \/ TurnApplied
  \/ NewConversationButton
  \/ ScriptEnds

Spec == Init /\ [][Next]_vars

\* ------------------------------------------------------------------------
\* Properties
\* ------------------------------------------------------------------------

\* the request in flight ends in an exception
CallRaises == pc = "call" /\ call_chat_completion(response).raised

\* C1: a model call that raises leaves pending_choices, pending_form and
\* conversation_done at their values from before the call; the user entry
\* appended just before the call is still the last entry of chat_history and
\* no assistant entry is appended.
C1_FailedCallFrame ==
  [][CallRaises =>
       /\ chat_history[Len(chat_history)].role = "user"
       /\ chat_history' = chat_history
       /\ pending_choices' = pending_choices
       /\ pending_form' = pending_form
       /\ conversation_done' = conversation_done]_vars

\* a choice was selected while choices and a form were pending, and
\* _normalize_model_output raised on the reply
C1_Witness ==
  /\ pc = "form"
  /\ failure = [from |-> "choices", age |-> 0, cause |-> "normalize"]
  /\ pending_choices # <<>>
  /\ Truthy(pending_form)
  /\ chat_history[Len(chat_history)].role = "user"

\* C2: after a failed model call, the next script run that draws the page
\* offers again the affordance (starter pills, choice pills or form) whose
\* selection triggered the failed call.
C2_RetryOffered ==
  (pc = "idle" /\ failure.age = 1 /\ ~crashed /\ accepted_terms)
    => failure.from \in rendered

\* C3: whatever requested_form a successful call stored in pending_form, no
\* script run ends in an uncaught exception.
C3_NoRenderCrash == ~crashed

\* C4: a script run draws at most one of the starter pills, the choice pills
\* and the form; with choices and a form both pending it draws the choice
\* pills only.
C4_OneAffordance == Cardinality(rendered \cap {"starters", "choices", "form"}) <= 1

\* conversation_done is set and true
Done == "conversation_done" \in DOMAIN session_state /\ conversation_done

\* the step that handles a click on one of the two reset buttons
ResetTaken ==
  \/ pc = "sidebar" /\ trigger = "reset"
  \/ pc = "done" /\ trigger = "new_conversation"

\* C5: while conversation_done is true no choice pills and no form are drawn,
\* no user entry is appended and no model call is made, whatever
\* pending_choices and pending_form hold; conversation_done stays true until
\* a reset.
C5_DoneIsClosed ==
  /\ [](Done => /\ rendered \cap {"starters", "choices", "form"} = {}
                /\ pc # "call"
                /\ run_appends = 0
                /\ run_calls = 0)
  /\ [][Done /\ ~ResetTaken => Done' /\ chat_history' = chat_history]_vars

\* a final reply came with choices and a form, and the page was drawn
C5_Witness ==
  /\ Done
  /\ pc = "idle"
  /\ "done" \in rendered
  /\ pending_choices # <<>>
  /\ Truthy(pending_form)

\* the conversation state of a session in which nothing was selected yet
FreshSession ==
  /\ "chat_history" \in DOMAIN session_state =>
       chat_history \in {<<>>, <<Message("assistant", greeting_text)>>}
  /\ "pending_choices" \in DOMAIN session_state => pending_choices = <<>>
  /\ "pending_form" \in DOMAIN session_state => pending_form = JNull
  /\ "conversation_done" \in DOMAIN session_state => ~conversation_done
  /\ (Initialised /\ accepted_terms) =>
       chat_history = <<Message("assistant", greeting_text)>>
  /\ (session_state = EmptyDict /\ require_terms) => ~Accepted

\* C6: a reset, from any state, removes chat_history, pending_choices,
\* pending_form, conversation_done and accepted_terms, so that the script
\* runs after it see what the runs of a fresh session see: terms not
\* accepted, then a history of the greeting alone, no pending choices, no
\* pending form, not done.
C6_ResetIsFresh ==
  /\ [](epoch \in {"new", "reset"} => FreshSession)
  /\ [][ResetTaken => session_state' = EmptyDict]_vars

\* a used conversation was reset, the terms were accepted again and the
\* page was drawn
C6_Witness ==
  /\ epoch = "reset"
  /\ pc = "idle"
  /\ require_terms
  /\ accepted_terms
  /\ "starters" \in rendered

\* what _extract_json_object gets from the text of the reply in flight
Extracted ==
  IF pc = "call" /\ ~response.failed /\ response.content.t = "str"
    THEN extract_json_object(response.content.v)
    ELSE [found |-> FALSE, val |-> JNull]

\* C7: _normalize_model_output does not raise on a text from which
\* _extract_json_object gets an object, whatever the object's members are.
C7_NormalizeNeverRaises ==
  Extracted.found => ~normalize_model_output(response.content.v).raised

\* C8: when _extract_json_object gets an object from the reply (the empty
\* object included), the assistant entry appended to chat_history is the
\* string-coerced assistant_message member ("" when absent), trimmed, or
\* the fixed fallback text when that is empty.
C8_MessageOrFallback ==
  [][(Extracted.found /\ ~CallRaises) =>
       chat_history' =
         Append(chat_history,
                Message("assistant",
                        AssistantText(Str(Get(Extracted.val, "assistant_message",
                                              JStr(<<>>))))))]_vars

\* the labels of the fields that are drawn, required and hold an
\* empty-equivalent entry, in field order
RECURSIVE EmptyRequired(_, _, _)
EmptyRequired(items, entered, n) ==
  IF n = 0 THEN <<>>
  ELSE IF /\ FieldFate(items[n]) = "show"
          /\ FieldRequired(items[n])
          /\ EmptyEquivalent(entered[n])
    THEN Append(EmptyRequired(items, entered, n - 1), FieldLabel(items[n]))
  ELSE EmptyRequired(items, entered, n - 1)

\* the form was submitted and _render_form is at its check of the values
SubmitChecked ==
  /\ pc = "form"
  /\ trigger = "submit"
  /\ FormAttempted
  /\ FormOutcome.outcome \in {"rejected", "submitted"}

\* C9: a submitted form is rejected exactly when a drawn required field
\* holds an empty-equivalent value; the rejection lists the labels of those
\* fields, in field order; otherwise the form gives a submission.
C9_RejectedIffMissing ==
  SubmitChecked =>
    /\ (FormOutcome.outcome = "rejected") <=>
         (EmptyRequired(FormItems(pending_form), form_entry,
                        Len(FormItems(pending_form))) # <<>>)
    /\ FormOutcome.missing =
         EmptyRequired(FormItems(pending_form), form_entry, Len(FormItems(pending_form)))

\* the label under which the submit check lists a field
Listed(field, missing) ==
  \E j \in 1..Len(missing) : missing[j] = Str(Get(field, "label", CheckedKey(field)))

\* C10: a field that is not drawn (unsupported type, or empty key) is never
\* listed as missing and gives no key to the submission, and a drawn field
\* that is filled is never listed as missing, whatever its key looks like
\* before trimming and string coercion.
C10_DroppedFieldsHarmless ==
  SubmitChecked =>
    \A i \in 1..Len(FormItems(pending_form)) :
      /\ FieldFate(FormItems(pending_form)[i]) = "skip" =>
           ~Listed(FormItems(pending_form)[i], FormOutcome.missing)
      /\ (/\ FieldFate(FormItems(pending_form)[i]) = "show"
          /\ ~EmptyEquivalent(form_entry[i])) =>
           ~Listed(FormItems(pending_form)[i], FormOutcome.missing)

\* the fields of requested_form that _render_form gives a widget
UsableFields(requested_form) ==
  {i \in 1..Len(FormItems(requested_form)) : FieldFate(FormItems(requested_form)[i]) = "show"}

\* a form is pending and none of its fields is usable
NoUsableField ==
  /\ "pending_form" \in DOMAIN session_state
  /\ Truthy(pending_form)
  /\ UsableFields(pending_form) = {}

\* C11: for a pending form without a usable field (no fields, an empty
\* list, or only fields dropped for an empty key or an unsupported type) no
\* form is drawn, and the form handler appends no FORM_SUBMISSION entry and
\* makes no model call.
C11_EmptyFormIsNoForm ==
  NoUsableField => "form" \notin rendered /\ ~(pc = "call" /\ ret = "done")

\* C12: a script run appends at most one user entry to chat_history and
\* makes at most one model call, whatever affordances hold an input in that
\* run (a choice pill that is still selected together with a submitted
\* form; a handler whose call failed followed by a later handler).
C12_OneActionPerRun == run_appends <= 1 /\ run_calls <= 1

\* the content of every entry of history is non-empty after trimming
NoEmptyBubble(history) ==
  \A i \in 1..Len(history) : Strip(history[i].content) # <<>>

\* C13: no entry of chat_history has a content that is empty after
\* trimming: not the seeded greeting, not a user entry, not an assistant
\* entry, for any model output and any sidebar configuration.
C13_NoEmptyBubble ==
  "chat_history" \in DOMAIN session_state => NoEmptyBubble(chat_history)

\* the text is non-empty after trimming
NonBlank(text) == Strip(text) # <<>>

\* the next_choices member of the object extracted from the reply in flight
ReplyChoices == Get(Extracted.val, "next_choices", JArr(<<>>))

\* the string-coerced elements of an array that are non-empty after
\* trimming, in their order
CoercedNonBlank(array) ==
  SelectSeq([i \in 1..Len(array.v) |-> Str(array.v[i])], NonBlank)

\* C14: every element of pending_choices is non-empty after trimming, and a
\* successful turn on a reply whose next_choices is an array sets
\* pending_choices to the string-coerced elements of that array that are
\* non-empty after trimming, in their original order.
C14_ChoicesAreNonBlankStrings ==
  /\ [](("pending_choices" \in DOMAIN session_state) =>
          \A i \in 1..Len(pending_choices) : NonBlank(pending_choices[i]))
  /\ [][(Extracted.found /\ ~CallRaises /\ ReplyChoices.t = "arr") =>
          pending_choices' = CoercedNonBlank(ReplyChoices)]_vars

\* a turn was applied whose next_choices were [7, "", "A", null]
C14_Witness ==
  /\ pc = "idle"
  /\ "choices" \in rendered
  /\ pending_choices = << <<"7">>, <<"A">>, <<"None">> >>

\* the reply in flight is a text from which _extract_json_object gets nothing
ExtractionFails ==
  /\ pc = "call"
  /\ ~response.failed
  /\ response.content.t = "str"
  /\ ~Extracted.found

\* the turn of a reply from which nothing was extracted, as normalized
RawTurn == Turn(response.content.v, <<>>, JNull, FALSE)

\* the state after a turn that appended an assistant entry with this
\* content and left nothing pending
PassedThrough(content) ==
  /\ chat_history' = Append(chat_history, Message("assistant", content))
  /\ pending_choices' = <<>>
  /\ pending_form' = JNull
  /\ conversation_done' = FALSE

\* C15 as stated: when extraction fails, normalize yields the raw text with
\* no choices, no form and final false, and the turn appends an assistant
\* entry whose content is the raw text, empties pending_choices, nulls
\* pending_form and sets done to false.
C15_RawEntryAppended ==
  /\ [](ExtractionFails => normalize_model_output(response.content.v) = RawTurn)
  /\ [][ExtractionFails => PassedThrough(response.content.v)]_vars

\* C15, amended: when extraction fails, normalize yields the raw text with
\* no choices, no form and final false, and the turn appends an assistant
\* entry whose content is the raw text trimmed, or the fixed fallback text
\* when the raw text is empty after trimming; it empties pending_choices,
\* nulls pending_form and sets done to false.
C15_TrimmedRawEntryAppended ==
  /\ [](ExtractionFails => normalize_model_output(response.content.v) = RawTurn)
  /\ [][ExtractionFails =>
          PassedThrough(IF Strip(response.content.v) # <<>>
                          THEN Strip(response.content.v)
                          ELSE Fallback)]_vars

\* a reply of prose alone was applied
C15_Witness ==
  /\ pc = "idle"
  /\ Len(chat_history) = 3
  /\ chat_history[3] = Message("assistant", <<"Sorry,", " ", "no">>)
  /\ pending_choices = <<>>
  /\ pending_form = JNull
  /\ ~conversation_done

\* the places <<i, j>> of text where a JSON object starts and ends: a "{",
\* members and whitespace, a "}"
EmbeddedObjects(text) ==
  {p \in (1..Len(text)) \X (1..Len(text)) :
     /\ p[1] < p[2]
     /\ text[p[1]] = "{"
     /\ text[p[2]] = "}"
     /\ \A k \in (p[1] + 1)..(p[2] - 1) : text[k] \in MemberToks \/ IsSpace(text[k])}

\* the object at place p of text
ObjectAt(text, p) == JObj(MembersOf(SubSeq(text, p[1] + 1, p[2] - 1)))

\* text has a "{" that is followed later by a "}"
HasBracePair(text) ==
  \E i \in 1..Len(text) : \E j \in (i + 1)..Len(text) : text[i] = "{" /\ text[j] = "}"

\* the reply in flight is a text
TextInFlight == pc = "call" /\ ~response.failed /\ response.content.t = "str"

\* C16: from a text that holds exactly one JSON object, with prose around
\* it (prose with braces of its own included), _extract_json_object returns
\* that object; from a text without a "{" that is followed later by a "}"
\* it returns nothing.
C16_ExtractRecovers ==
  TextInFlight =>
    /\ \A p \in EmbeddedObjects(response.content.v) :
         EmbeddedObjects(response.content.v) = {p} =>
           Extracted = [found |-> TRUE, val |-> ObjectAt(response.content.v, p)]
    /\ ~HasBracePair(response.content.v) => ~Extracted.found

\* C17: with the terms accepted, a history of exactly one entry and a
\* non-empty starter list, the script run draws the starter pills, whatever
\* pending_choices, pending_form and conversation_done hold.
C17_StartersShown ==
  /\ []((pc = "idle" /\ accepted_terms /\ Len(chat_history) = 1 /\ starters # <<>>)
          => "starters" \in rendered)
  /\ [][(pc = "starters" /\ Len(chat_history) = 1 /\ starters # <<>>)
          => "starters" \in rendered']_vars

\* terms were required and accepted, and the page was drawn for a history
\* of the greeting alone
C17_Witness ==
  /\ pc = "idle"
  /\ require_terms
  /\ accepted_terms
  /\ Len(chat_history) = 1
  /\ "starters" \in rendered

\* chat_history of a session state, [] while the key is not set
HistoryOf(state) ==
  IF "chat_history" \in DOMAIN state THEN state.chat_history ELSE <<>>

\* pending_choices, pending_form and conversation_done of a session state,
\* at their defaults while the keys are not set
PendingOf(state) ==
  << IF "pending_choices" \in DOMAIN state THEN state.pending_choices ELSE <<>>,
     IF "pending_form" \in DOMAIN state THEN state.pending_form ELSE JNull,
     IF "conversation_done" \in DOMAIN state THEN state.conversation_done ELSE FALSE >>

\* history `after` is history `before` with entries appended at its end
Extends(after, before) ==
  Len(before) <= Len(after) /\ SubSeq(after, 1, Len(before)) = before

\* C18: in every step other than a reset, chat_history after the step is
\* chat_history before it with entries appended at the end, and
\* pending_choices, pending_form and conversation_done change only in the
\* step of a successful model call, which appends one assistant entry.
C18_AppendOnly ==
  [][~ResetTaken =>
       /\ Extends(HistoryOf(session_state'), HistoryOf(session_state))
       /\ PendingOf(session_state') # PendingOf(session_state) =>
            /\ pc = "call"
            /\ ~CallRaises
            /\ Len(chat_history') = Len(chat_history) + 1
            /\ chat_history'[Len(chat_history')].role = "assistant"]_vars

\* a second successful turn has replaced the pending choices by a form
C18_Witness ==
  /\ pc = "idle"
  /\ Len(chat_history) = 5
  /\ chat_history[3].role = "assistant"
  /\ chat_history[4].role = "user"
  /\ chat_history[5].role = "assistant"
  /\ pending_choices = <<>>
  /\ Truthy(pending_form)

\* C19: while chat_history has at most one entry, pending_choices is
\* empty, pending_form is null and conversation_done is false; so a script
\* run that draws the starter pills draws no choice pills, no form and no
\* completion banner.
C19_NothingPendingAtStart ==
  /\ Len(HistoryOf(session_state)) <= 1 =>
       PendingOf(session_state) = << <<>>, JNull, FALSE >>
  /\ "starters" \in rendered => rendered \cap {"choices", "form", "done"} = {}

\* a used conversation was reset and the page was drawn again, terms not
\* being required
C19_Witness ==
  /\ epoch = "reset"
  /\ ~require_terms
  /\ pc = "idle"
  /\ Len(chat_history) = 1
  /\ rendered = {"starters"}

\* the script run is at its start and will find the terms required and
\* not accepted
TermsRefused == pc = "sidebar" /\ trigger # "reset" /\ require_terms /\ ~Accepted

\* C20: a script run that finds the terms required and not accepted stops
\* before the greeting is seeded and before any affordance is drawn, leaving
\* chat_history, pending_choices, pending_form and conversation_done as
\* they were and making no model call; a user entry is appended and a model
\* call is made only in a run in which accepted_terms is true.
C20_TermsGate ==
  /\ []((pc \in {"starters", "choices", "form", "done", "call"}
           \/ run_appends > 0 \/ run_calls > 0) => accepted_terms)
  /\ [][TermsRefused =>
          /\ pc' = "idle"
          /\ HistoryOf(session_state') = HistoryOf(session_state)
          /\ PendingOf(session_state') = PendingOf(session_state)
          /\ rendered' \cap {"starters", "choices", "form", "done"} = {}
          /\ run_appends' = 0
          /\ run_calls' = 0]_vars

\* the terms were unticked in the middle of a conversation and the run
\* stopped at the gate
C20_Witness ==
  /\ pc = "idle"
  /\ require_terms
  /\ ~accepted_terms
  /\ rendered = {"terms"}
  /\ Len(chat_history) >= 3
  /\ pending_choices # <<>>

====
